---- MODULE Spec2Model ----
(***************************************************************************)
(* The copy progress bar of mc (cp-bar.go): the handle barSend, the actor  *)
(* goroutine started by newCpBar, and the pure function trimBarCaption.    *)
(***************************************************************************)
EXTENDS Integers, Sequences, FiniteSets, TLC

(***************************************************************************)
(* Bounds of the model.                                                    *)
(***************************************************************************)
NumCallers == 2      \* goroutines that hold the handle
MaxCmds == 3         \* commands other than Finish sent in one run
MaxLen == 8          \* longest caption message given to trimBarCaption
MaxWidth == 9        \* largest width given to trimBarCaption

Callers == 1..NumCallers

(***************************************************************************)
(* int64.  A value is <<h, m, l>> = h * 2^42 + m * 2^21 + l in two's       *)
(* complement: h is the signed top 22 bits, m and l are 21 bits each.      *)
(* Addition and subtraction wrap around as Go's int64 does.                *)
(***************************************************************************)
Limb == 2^21

I64(n) == <<(n \div Limb) \div Limb, (n \div Limb) % Limb, n % Limb>>

MaxInt64 == <<Limb - 1, Limb - 1, Limb - 1>>
MinInt64 == <<-Limb, 0, 0>>
Zero64 == I64(0)

WrapHigh(h) == ((h + Limb) % (2 * Limb)) - Limb

Plus64(x, y) ==
    LET l == x[3] + y[3]
        m == x[2] + y[2] + (l \div Limb)
        h == x[1] + y[1] + (m \div Limb)
    IN  <<WrapHigh(h), m % Limb, l % Limb>>

Minus64(x, y) ==
    LET l == x[3] - y[3]
        m == x[2] - y[2] + (l \div Limb)
        h == x[1] - y[1] + (m \div Limb)
    IN  <<WrapHigh(h), m % Limb, l % Limb>>

Less64(x, y) ==
    \/ x[1] < y[1]
    \/ x[1] = y[1] /\ x[2] < y[2]
    \/ x[1] = y[1] /\ x[2] = y[2] /\ x[3] < y[3]

Greater64(x, y) == Less64(y, x)

(***************************************************************************)
(* The commands (cpBarCmd) and the arguments the callers draw.             *)
(***************************************************************************)
cpBarCmdExtend == 0
cpBarCmdProgress == 1
cpBarCmdFinish == 2
cpBarCmdPutError == 3
cpBarCmdGetError == 4
cpBarCmdSetCaption == 5

ExtendArgs == {I64(-1), I64(1), MaxInt64}
ProgressArgs == {I64(-1), I64(0), I64(1), MaxInt64}
PutErrorArgs == {I64(-1), I64(0), I64(1), MinInt64}
GetErrorArgs == {I64(-1), I64(0), I64(1)}

(***************************************************************************)
(* Strings are sequences of bytes; a caption is a message and a separator  *)
(* rune.                                                                   *)
(***************************************************************************)
\* the bytes 'a' and '/'
Alphabet == {97, 47}
\* the runes '/', '.' and U+012F, whose low byte is '/'
Separators == {47, 46, 303}

\* "..."
Dots == <<46, 46, 46>>

\* strings.IndexByte: the index (from 0) of the first b in s, or -1
IndexByte(s, b) ==
    IF \E i \in 1..Len(s) : s[i] = b
    THEN (CHOOSE i \in 1..Len(s) : s[i] = b /\ \A j \in 1..(i - 1) : s[j] # b) - 1
    ELSE -1

\* s[from:] of Go, from counted from 0
SliceFrom(s, from) == SubSeq(s, from + 1, Len(s))

\* byte(r) of Go: the low 8 bits of the rune
ToByte(r) == r % 256

\* trimBarCaption trimming a message as long as the width
trimBarCaptionAtWidth(c, width) ==
    IF Len(c.message) >= width
    THEN LET trimSize == Len(c.message) - width + 3 + 1
         IN  IF trimSize < Len(c.message)
             THEN LET message == Dots \o SliceFrom(c.message, trimSize)
                      partialTrimSize == IndexByte(message, ToByte(c.separator))
                  IN  IF partialTrimSize > 0
                      THEN SliceFrom(message, partialTrimSize)
                      ELSE message
             ELSE c.message
    ELSE c.message

trimBarCaption(c, width) ==
    IF Len(c.message) > width
    THEN LET trimSize == Len(c.message) - width + 3 + 1
         IN  IF trimSize < Len(c.message)
             THEN LET message == Dots \o SliceFrom(c.message, trimSize)
                      partialTrimSize == IndexByte(message, ToByte(c.separator))
                  IN  IF partialTrimSize > 0
                      THEN SliceFrom(message, partialTrimSize)
                      ELSE message
             ELSE c.message
    ELSE c.message

(***************************************************************************)
(* State.                                                                  *)
(*   bar             the pb.ProgressBar: Total, current, and running       *)
(*                   (between bar.Start() and bar.Finish())                *)
(*   started, redraw, barCaption, totalBytesRead                           *)
(*                   the locals of the actor goroutine                     *)
(*   actorPc         "range": at `for msg := range cmdCh`;                 *)
(*                   "signal": blocked in `finishCh <- true`;              *)
(*                   "returned": the goroutine has ended                   *)
(*   cmdChClosed     close(b.cmdCh) has run                                *)
(*   caller          per caller: pc and the message it is sending.        *)
(*                   "ready": outside the handle; "sending": blocked in    *)
(*                   `b.cmdCh <- msg`; "waiting": in Finish, blocked in    *)
(*                   `<-b.finishCh`; "closing": in Finish, the deferred    *)
(*                   close is next; "returned": Finish has returned;       *)
(*                   "panicked": a send on the closed channel              *)
(*   sent            the tally of the messages sent or being sent          *)
(*   taken           the tally of the messages the actor has taken         *)
(*   trimPc, trimCaption, trimWidth, trimResult, trimTwice                 *)
(*                   a call of trimBarCaption and a second call on its     *)
(*                   result                                                *)
(*   reader          per caller, its call of copyReader.Read: pc ("idle",  *)
(*                   "read": the wrapped Read has returned n and err,      *)
(*                   "progress": r.bar.progress has been called), what the *)
(*                   call returned last, and how many calls were made      *)
(*   order           per caller, how many messages it has sent and how     *)
(*                   many of them the actor has taken                      *)
(***************************************************************************)
VARIABLES bar, started, redraw, barCaption, totalBytesRead, actorPc,
          cmdChClosed, caller, sent, taken,
          trimPc, trimCaption, trimWidth, trimResult, trimTwice,
          reader, order

actorVars == <<bar, started, redraw, barCaption, totalBytesRead>>
trimVars == <<trimPc, trimCaption, trimWidth, trimResult, trimTwice>>
\* reader is followed in ReadSpec and order in OrderSpec only
auxVars == <<reader, order>>
vars == <<bar, started, redraw, barCaption, totalBytesRead, actorPc,
          cmdChClosed, caller, sent, taken,
          trimPc, trimCaption, trimWidth, trimResult, trimTwice,
          reader, order>>

NoMsg == [Cmd |-> -1, Arg |-> <<>>]

\* the captions the callers set and the widths bar.GetWidth() reports
Captions == {[message |-> <<97, 47, 97, 97, 47, 97, 97>>, separator |-> 47]}
BarWidths == {2, 6}

NoCaption == [message |-> <<>>, separator |-> 47]

\* what a tally of messages records: how many commands other than Finish,
\* the int64 sum of the Extend arguments, the int64 sum of the Progress
\* arguments, how many error commands, and whether a Progress argument was
\* negative
NoTally == [n |-> 0, extend |-> Zero64, progress |-> Zero64, errors |-> 0,
            negative |-> FALSE]

Tally(t, m) ==
    [n        |-> t.n + (IF m.Cmd = cpBarCmdFinish THEN 0 ELSE 1),
     extend   |-> IF m.Cmd = cpBarCmdExtend THEN Plus64(t.extend, m.Arg) ELSE t.extend,
     progress |-> IF m.Cmd = cpBarCmdProgress THEN Plus64(t.progress, m.Arg)
                  ELSE t.progress,
     errors   |-> t.errors + (IF m.Cmd \in {cpBarCmdPutError, cpBarCmdGetError}
                              THEN 1 ELSE 0),
     negative |-> t.negative \/ (m.Cmd = cpBarCmdProgress /\ Less64(m.Arg, Zero64))]

\* newCpBar: the state when the handle is returned
ActorInit ==
    /\ bar = [Total |-> Zero64, current |-> Zero64, running |-> FALSE]
    /\ started = FALSE
    /\ redraw = FALSE
    /\ barCaption = <<>>
    /\ totalBytesRead = Zero64
    /\ actorPc = "range"
    /\ cmdChClosed = FALSE
    /\ caller = [c \in Callers |-> [pc |-> "ready", msg |-> NoMsg]]
    /\ sent = NoTally
    /\ taken = NoTally

AuxInit ==
    /\ reader = [c \in Callers |->
                    [pc |-> "idle", n |-> 0, err |-> "nil", retN |-> 0,
                     retErr |-> "nil", calls |-> 0]]
    /\ order = [c \in Callers |-> [sent |-> 0, taken |-> 0]]

Init ==
    /\ ActorInit
    /\ AuxInit
    /\ trimPc = "off"
    /\ trimCaption = NoCaption
    /\ trimWidth = 0
    /\ trimResult = <<>>
    /\ trimTwice = <<>>

(***************************************************************************)
(* The handle.  A send on the unbuffered cmdCh blocks ("sending") until    *)
(* the actor takes the message.                                            *)
(***************************************************************************)
\* a send that does not wait for the message before it to be taken
SendOverwrites(c, m) ==
    /\ caller[c].pc \in {"ready", "sending"}
    /\ caller' = [caller EXCEPT ![c] = [pc |-> "sending", msg |-> m]]
    /\ sent' = Tally(sent, m)
    /\ UNCHANGED <<actorVars, actorPc, cmdChClosed, taken, trimVars>>

\* b.cmdCh <- m
Send(c, m) ==
    /\ caller[c].pc = "ready"
    /\ caller' = [caller EXCEPT ![c] = [pc |-> "sending", msg |-> m]]
    /\ sent' = Tally(sent, m)
    /\ UNCHANGED <<actorVars, actorPc, cmdChClosed, taken, trimVars>>

Extend(c, total) ==
    /\ sent.n < MaxCmds
    /\ Send(c, [Cmd |-> cpBarCmdExtend, Arg |-> total])

progress(c, n) ==
    /\ sent.n < MaxCmds
    /\ Send(c, [Cmd |-> cpBarCmdProgress, Arg |-> n])

ErrorPut(c, size) ==
    /\ sent.n < MaxCmds
    /\ Send(c, [Cmd |-> cpBarCmdPutError, Arg |-> size])

ErrorGet(c, size) ==
    /\ sent.n < MaxCmds
    /\ Send(c, [Cmd |-> cpBarCmdGetError, Arg |-> size])

SetCaption(c, cap) ==
    /\ sent.n < MaxCmds
    /\ Send(c, [Cmd |-> cpBarCmdSetCaption, Arg |-> cap])

\* Finish, up to its send: the close is deferred, the Finish command is sent
Finish(c) == Send(c, [Cmd |-> cpBarCmdFinish, Arg |-> <<>>])

\* a send on the closed channel panics; in Finish the deferred close then
\* panics as well
SendOnClosed(c) ==
    /\ caller[c].pc = "sending"
    /\ cmdChClosed
    /\ caller' = [caller EXCEPT ![c].pc = "panicked"]
    /\ UNCHANGED <<actorVars, actorPc, cmdChClosed, sent, taken, trimVars>>

(***************************************************************************)
(* The actor goroutine of newCpBar: one action per case of the switch.     *)
(* Taking a message from cmdCh releases its sender.                        *)
(***************************************************************************)
\* a receive that does not depend on the actor being in its loop
ReceivesAnywhere(c, cmd) ==
    /\ caller[c].pc = "sending"
    /\ caller[c].msg.Cmd = cmd

\* msg := <-cmdCh of the range loop, for a message of kind cmd sent by c
Receives(c, cmd) ==
    /\ actorPc = "range"
    /\ caller[c].pc = "sending"
    /\ caller[c].msg.Cmd = cmd

\* a receive that releases every blocked sender and keeps one message
TakenDropsOthers(c) ==
    /\ caller' = [d \in Callers |->
                     IF caller[d].pc = "sending"
                     THEN [caller[d] EXCEPT !.pc =
                              IF caller[d].msg.Cmd = cpBarCmdFinish
                              THEN "waiting" ELSE "ready"]
                     ELSE caller[d]]
    /\ taken' = Tally(taken, caller[c].msg)

Taken(c) ==
    /\ caller' = [caller EXCEPT ![c].pc =
                     IF caller[c].msg.Cmd = cpBarCmdFinish THEN "waiting" ELSE "ready"]
    /\ taken' = Tally(taken, caller[c].msg)

\* case cpBarCmdSetCaption; w is what bar.GetWidth() returns
HandleSetCaption(c, w) ==
    /\ Receives(c, cpBarCmdSetCaption)
    /\ barCaption' = trimBarCaption(caller[c].msg.Arg, w)
    /\ Taken(c)
    /\ UNCHANGED <<bar, started, redraw, totalBytesRead, actorPc, cmdChClosed,
                   sent, trimVars>>

\* case cpBarCmdExtend storing the argument instead of adding it
HandleExtendStores(c) ==
    /\ Receives(c, cpBarCmdExtend)
    /\ bar' = [bar EXCEPT !.Total = caller[c].msg.Arg]
    /\ Taken(c)
    /\ UNCHANGED <<started, redraw, barCaption, totalBytesRead, actorPc,
                   cmdChClosed, sent, trimVars>>

\* case cpBarCmdExtend
HandleExtend(c) ==
    /\ Receives(c, cpBarCmdExtend)
    /\ bar' = [bar EXCEPT !.Total = Plus64(@, caller[c].msg.Arg)]
    /\ Taken(c)
    /\ UNCHANGED <<started, redraw, barCaption, totalBytesRead, actorPc,
                   cmdChClosed, sent, trimVars>>

\* case cpBarCmdProgress adding every argument other than 0
HandleProgressAddsNegative(c) ==
    LET arg == caller[c].msg.Arg
        start == Greater64(bar.Total, Zero64) /\ ~started
        add == arg # Zero64
    IN  /\ Receives(c, cpBarCmdProgress)
        /\ started' = (started \/ start)
        /\ redraw' = (redraw \/ start)
        /\ totalBytesRead' = IF add THEN Plus64(totalBytesRead, arg) ELSE totalBytesRead
        /\ bar' = [bar EXCEPT !.running = (@ \/ start),
                              !.current = IF add THEN Plus64(@, arg) ELSE @]
        /\ Taken(c)
        /\ UNCHANGED <<barCaption, actorPc, cmdChClosed, sent, trimVars>>

\* case cpBarCmdProgress starting the bar only with a delta it adds
HandleProgressStartsOnAdd(c) ==
    LET arg == caller[c].msg.Arg
        add == Greater64(arg, Zero64)
        start == Greater64(bar.Total, Zero64) /\ ~started /\ add
    IN  /\ Receives(c, cpBarCmdProgress)
        /\ started' = (started \/ start)
        /\ redraw' = (redraw \/ start)
        /\ totalBytesRead' = IF add THEN Plus64(totalBytesRead, arg) ELSE totalBytesRead
        /\ bar' = [bar EXCEPT !.running = (@ \/ start),
                              !.current = IF add THEN Plus64(@, arg) ELSE @]
        /\ Taken(c)
        /\ UNCHANGED <<barCaption, actorPc, cmdChClosed, sent, trimVars>>

\* case cpBarCmdProgress starting the bar whatever the total
HandleProgressStartsAlways(c) ==
    LET arg == caller[c].msg.Arg
        start == ~started
        add == Greater64(arg, Zero64)
    IN  /\ Receives(c, cpBarCmdProgress)
        /\ started' = (started \/ start)
        /\ redraw' = (redraw \/ start)
        /\ totalBytesRead' = IF add THEN Plus64(totalBytesRead, arg) ELSE totalBytesRead
        /\ bar' = [bar EXCEPT !.running = (@ \/ start),
                              !.current = IF add THEN Plus64(@, arg) ELSE @]
        /\ Taken(c)
        /\ UNCHANGED <<barCaption, actorPc, cmdChClosed, sent, trimVars>>

\* case cpBarCmdProgress
HandleProgress(c) ==
    LET arg == caller[c].msg.Arg
        start == Greater64(bar.Total, Zero64) /\ ~started
        add == Greater64(arg, Zero64)
    IN  /\ Receives(c, cpBarCmdProgress)
        /\ started' = (started \/ start)
        /\ redraw' = (redraw \/ start)
        /\ totalBytesRead' = IF add THEN Plus64(totalBytesRead, arg) ELSE totalBytesRead
        /\ bar' = [bar EXCEPT !.running = (@ \/ start),
                              !.current = IF add THEN Plus64(@, arg) ELSE @]
        /\ Taken(c)
        /\ UNCHANGED <<barCaption, actorPc, cmdChClosed, sent, trimVars>>

\* case cpBarCmdPutError going back from the position of the bar
HandlePutErrorFromPosition(c) ==
    LET arg == caller[c].msg.Arg
    IN  /\ Receives(c, cpBarCmdPutError)
        /\ redraw' = TRUE
        /\ bar' = IF Greater64(bar.current, arg)
                  THEN [bar EXCEPT !.current = Minus64(bar.current, arg)]
                  ELSE bar
        /\ Taken(c)
        /\ UNCHANGED <<started, barCaption, totalBytesRead, actorPc, cmdChClosed,
                       sent, trimVars>>

\* case cpBarCmdPutError forcing a redraw only when it moves the position
HandlePutErrorRedrawsOnChange(c) ==
    LET arg == caller[c].msg.Arg
    IN  /\ Receives(c, cpBarCmdPutError)
        /\ redraw' = (redraw \/ Greater64(totalBytesRead, arg))
        /\ bar' = IF Greater64(totalBytesRead, arg)
                  THEN [bar EXCEPT !.current = Minus64(totalBytesRead, arg)]
                  ELSE bar
        /\ Taken(c)
        /\ UNCHANGED <<started, barCaption, totalBytesRead, actorPc, cmdChClosed,
                       sent, trimVars>>

\* case cpBarCmdPutError
HandlePutError(c) ==
    LET arg == caller[c].msg.Arg
    IN  /\ Receives(c, cpBarCmdPutError)
        /\ redraw' = TRUE
        /\ bar' = IF Greater64(totalBytesRead, arg)
                  THEN [bar EXCEPT !.current = Minus64(totalBytesRead, arg)]
                  ELSE bar
        /\ Taken(c)
        /\ UNCHANGED <<started, barCaption, totalBytesRead, actorPc, cmdChClosed,
                       sent, trimVars>>

\* case cpBarCmdGetError adding the size without the guard
HandleGetErrorUnguarded(c) ==
    LET arg == caller[c].msg.Arg
    IN  /\ Receives(c, cpBarCmdGetError)
        /\ redraw' = TRUE
        /\ bar' = [bar EXCEPT !.current = Plus64(@, arg)]
        /\ Taken(c)
        /\ UNCHANGED <<started, barCaption, totalBytesRead, actorPc, cmdChClosed,
                       sent, trimVars>>

\* case cpBarCmdGetError
HandleGetError(c) ==
    LET arg == caller[c].msg.Arg
    IN  /\ Receives(c, cpBarCmdGetError)
        /\ redraw' = TRUE
        /\ bar' = IF Greater64(arg, Zero64)
                  THEN [bar EXCEPT !.current = Plus64(@, arg)]
                  ELSE bar
        /\ Taken(c)
        /\ UNCHANGED <<started, barCaption, totalBytesRead, actorPc, cmdChClosed,
                       sent, trimVars>>

\* case cpBarCmdFinish signalling only a bar that was started
HandleFinishOnlyStarted(c) ==
    /\ Receives(c, cpBarCmdFinish)
    /\ bar' = [bar EXCEPT !.running = IF started THEN FALSE ELSE @]
    /\ redraw' = IF started THEN FALSE ELSE redraw
    /\ actorPc' = IF started THEN "signal" ELSE "range"
    /\ Taken(c)
    /\ UNCHANGED <<started, barCaption, totalBytesRead, cmdChClosed, sent,
                   trimVars>>

\* case cpBarCmdFinish, up to the send on finishCh; bar.Finish() stops the
\* bar after a last call of bar.Callback
HandleFinish(c) ==
    /\ Receives(c, cpBarCmdFinish)
    /\ bar' = [bar EXCEPT !.running = IF started THEN FALSE ELSE @]
    /\ redraw' = IF started THEN FALSE ELSE redraw
    /\ actorPc' = "signal"
    /\ Taken(c)
    /\ UNCHANGED <<started, barCaption, totalBytesRead, cmdChClosed, sent,
                   trimVars>>

\* a Finish case without its return: the actor signals and loops on
SignalThenLoops(c) ==
    /\ actorPc = "signal"
    /\ caller[c].pc = "waiting"
    /\ actorPc' = "range"
    /\ caller' = [caller EXCEPT ![c].pc = "closing"]
    /\ UNCHANGED <<actorVars, cmdChClosed, sent, taken, trimVars>>

\* finishCh <- true meets <-b.finishCh; the actor returns
Signal(c) ==
    /\ actorPc = "signal"
    /\ caller[c].pc = "waiting"
    /\ actorPc' = "returned"
    /\ caller' = [caller EXCEPT ![c].pc = "closing"]
    /\ UNCHANGED <<actorVars, cmdChClosed, sent, taken, trimVars>>

\* a close that is not deferred to the return of Finish: it may run while
\* the Finish message is still in the send
CloseEarly(c) ==
    /\ \/ caller[c].pc = "closing"
       \/ caller[c].pc = "sending" /\ caller[c].msg.Cmd = cpBarCmdFinish
    /\ cmdChClosed' = TRUE
    /\ caller' = [caller EXCEPT ![c].pc =
                     IF @ = "closing" THEN "returned" ELSE @]
    /\ UNCHANGED <<actorVars, actorPc, sent, taken, trimVars>>

\* the deferred close(b.cmdCh); Finish returns
Close(c) ==
    /\ caller[c].pc = "closing"
    /\ cmdChClosed' = TRUE
    /\ caller' = [caller EXCEPT ![c].pc = "returned"]
    /\ UNCHANGED <<actorVars, actorPc, sent, taken, trimVars>>

\* bar.Callback, called by the running bar on its refresh tick
Callback ==
    /\ bar.running
    /\ redraw' = FALSE
    /\ UNCHANGED <<bar, started, barCaption, totalBytesRead, actorPc, cmdChClosed,
                   caller, sent, taken, trimVars>>

Next ==
    \/ \E c \in Callers, a \in ExtendArgs : Extend(c, a) /\ UNCHANGED auxVars
    \/ \E c \in Callers, a \in ProgressArgs : progress(c, a) /\ UNCHANGED auxVars
    \/ \E c \in Callers, a \in PutErrorArgs : ErrorPut(c, a) /\ UNCHANGED auxVars
    \/ \E c \in Callers, a \in GetErrorArgs : ErrorGet(c, a) /\ UNCHANGED auxVars
    \/ \E c \in Callers, cap \in Captions : SetCaption(c, cap) /\ UNCHANGED auxVars
    \/ \E c \in Callers : Finish(c) /\ UNCHANGED auxVars
    \/ \E c \in Callers : SendOnClosed(c) /\ UNCHANGED auxVars
    \/ \E c \in Callers, w \in BarWidths : HandleSetCaption(c, w) /\ UNCHANGED auxVars
    \/ \E c \in Callers : HandleExtend(c) /\ UNCHANGED auxVars
    \/ \E c \in Callers : HandleProgress(c) /\ UNCHANGED auxVars
    \/ \E c \in Callers : HandlePutError(c) /\ UNCHANGED auxVars
    \/ \E c \in Callers : HandleGetError(c) /\ UNCHANGED auxVars
    \/ \E c \in Callers : HandleFinish(c) /\ UNCHANGED auxVars
    \/ \E c \in Callers : Signal(c) /\ UNCHANGED auxVars
    \/ \E c \in Callers : Close(c) /\ UNCHANGED auxVars
    \/ Callback /\ UNCHANGED auxVars

Spec == Init /\ [][Next]_vars

(***************************************************************************)
(* Callers that keep the contract of the handle: Finish is invoked once,   *)
(* when no caller is sending, and nothing is sent after it.  The           *)
(* goroutines are scheduled fairly: the actor takes a message that is      *)
(* offered, and a caller that can finish its Finish does.                  *)
(***************************************************************************)
FinishInvoked == \E c \in Callers : caller[c].msg.Cmd = cpBarCmdFinish

OrderlySend ==
    /\ ~FinishInvoked
    /\ UNCHANGED auxVars
    /\ \/ \E c \in Callers, a \in ExtendArgs : Extend(c, a)
       \/ \E c \in Callers, a \in ProgressArgs : progress(c, a)
       \/ \E c \in Callers, a \in PutErrorArgs : ErrorPut(c, a)
       \/ \E c \in Callers, a \in GetErrorArgs : ErrorGet(c, a)
       \/ \E c \in Callers, cap \in Captions : SetCaption(c, cap)

OrderlyFinish ==
    /\ ~FinishInvoked
    /\ UNCHANGED auxVars
    /\ \A d \in Callers : caller[d].pc = "ready"
    /\ \E c \in Callers : Finish(c)

ActorStep ==
    /\ UNCHANGED auxVars
    /\ \/ \E c \in Callers, w \in BarWidths : HandleSetCaption(c, w)
       \/ \E c \in Callers :
             \/ HandleExtend(c) \/ HandleProgress(c) \/ HandlePutError(c)
             \/ HandleGetError(c) \/ HandleFinish(c)
             \/ Signal(c)

FinishReturn == UNCHANGED auxVars /\ \E c \in Callers : Close(c)

OrderlyNext ==
    \/ OrderlySend
    \/ OrderlyFinish
    \/ ActorStep
    \/ FinishReturn
    \/ Callback /\ UNCHANGED auxVars

LiveSpec ==
    /\ Init
    /\ [][OrderlyNext]_vars
    /\ WF_vars(ActorStep)
    /\ WF_vars(FinishReturn)

(***************************************************************************)
(* trimBarCaption on its own: a caption and a width are drawn, the         *)
(* function is applied, and applied again to its result.                   *)
(***************************************************************************)
Messages == UNION {[1..n -> Alphabet] : n \in 0..MaxLen}
\* bar.GetWidth() is the width of a terminal
Widths == 0..MaxWidth

TrimInit ==
    /\ ActorInit
    /\ AuxInit
    /\ trimPc = "input"
    /\ trimCaption \in [message : Messages, separator : Separators]
    /\ trimWidth \in Widths
    /\ trimResult = <<>>
    /\ trimTwice = <<>>

TrimOnce ==
    /\ trimPc = "input"
    /\ trimResult' = trimBarCaption(trimCaption, trimWidth)
    /\ trimPc' = "once"
    /\ UNCHANGED <<actorVars, actorPc, cmdChClosed, caller, sent, taken,
                   trimCaption, trimWidth, trimTwice>>

TrimTwice ==
    /\ trimPc = "once"
    /\ trimTwice' = trimBarCaption([trimCaption EXCEPT !.message = trimResult],
                                   trimWidth)
    /\ trimPc' = "twice"
    /\ UNCHANGED <<actorVars, actorPc, cmdChClosed, caller, sent, taken,
                   trimCaption, trimWidth, trimResult>>

TrimNext ==
    \/ TrimOnce /\ UNCHANGED auxVars
    \/ TrimTwice /\ UNCHANGED auxVars

TrimSpec == TrimInit /\ [][TrimNext]_vars

(***************************************************************************)
(* copyReader: the reader NewProxyReader returns.  A call of Read first    *)
(* calls the wrapped reader, which returns a count n and an error, then    *)
(* r.bar.progress(int64(n)), which blocks until the actor has taken the    *)
(* message, and then returns n and err.  The wrapped reader is an input:   *)
(* it returns any of ReadCounts with any of ReadErrs.                      *)
(***************************************************************************)
ReadCounts == {0, 1, 2}
ReadErrs == {"nil", "EOF", "ErrUnexpectedEOF"}

\* the Read calls whose wrapped Read has returned and whose message is unsent
ReadPending == {c \in Callers : reader[c].pc = "read"}

\* n, err = r.Reader.Read(p)
Read(c, n, err) ==
    /\ reader[c].pc = "idle"
    /\ caller[c].pc = "ready"
    /\ sent.n + Cardinality(ReadPending) < MaxCmds
    /\ reader' = [reader EXCEPT ![c].pc = "read", ![c].n = n, ![c].err = err,
                                ![c].calls = @ + 1]
    /\ UNCHANGED <<actorVars, actorPc, cmdChClosed, caller, sent, taken,
                   trimVars, order>>

\* as ReadProgress, but a count of 0 is not reported
ReadProgressSkipsZero(c) ==
    /\ reader[c].pc = "read"
    /\ IF reader[c].n = 0
         THEN UNCHANGED <<actorVars, actorPc, cmdChClosed, caller, sent,
                          taken, trimVars>>
         ELSE progress(c, I64(reader[c].n))
    /\ reader' = [reader EXCEPT ![c].pc = "progress"]
    /\ UNCHANGED order

\* r.bar.progress(int64(n))
ReadProgress(c) ==
    /\ reader[c].pc = "read"
    /\ progress(c, I64(reader[c].n))
    /\ reader' = [reader EXCEPT ![c].pc = "progress"]
    /\ UNCHANGED order

\* return: the named results n and err
ReadReturn(c) ==
    /\ reader[c].pc = "progress"
    /\ caller[c].pc = "ready"
    /\ reader' = [reader EXCEPT ![c].pc = "idle", ![c].retN = reader[c].n,
                                ![c].retErr = reader[c].err]
    /\ UNCHANGED <<actorVars, actorPc, cmdChClosed, caller, sent, taken,
                   trimVars, order>>

ReadNext ==
    \/ \E c \in Callers, n \in ReadCounts, err \in ReadErrs : Read(c, n, err)
    \/ \E c \in Callers : ReadProgress(c)
    \/ \E c \in Callers : HandleProgress(c) /\ UNCHANGED auxVars
    \/ \E c \in Callers : ReadReturn(c)

ReadSpec == Init /\ [][ReadNext]_vars

(***************************************************************************)
(* Several producers on one handle, with the messages of each producer     *)
(* numbered: order[c].sent counts the sends of c and order[c].taken the    *)
(* receives of the actor from c.  One argument per command is enough here. *)
(***************************************************************************)
OrderSent(c) ==
    /\ order' = [order EXCEPT ![c].sent = @ + 1]
    /\ UNCHANGED reader

OrderTaken(c) ==
    /\ order' = [order EXCEPT ![c].taken = @ + 1]
    /\ UNCHANGED reader

OrderNext ==
    \/ \E c \in Callers : Extend(c, I64(1)) /\ OrderSent(c)
    \/ \E c \in Callers : progress(c, I64(1)) /\ OrderSent(c)
    \/ \E c \in Callers : ErrorPut(c, I64(0)) /\ OrderSent(c)
    \/ \E c \in Callers : ErrorGet(c, I64(1)) /\ OrderSent(c)
    \/ \E c \in Callers, cap \in Captions : SetCaption(c, cap) /\ OrderSent(c)
    \/ \E c \in Callers : Finish(c) /\ OrderSent(c)
    \/ \E c \in Callers : SendOnClosed(c) /\ UNCHANGED auxVars
    \/ \E c \in Callers, w \in BarWidths : HandleSetCaption(c, w) /\ OrderTaken(c)
    \/ \E c \in Callers : HandleExtend(c) /\ OrderTaken(c)
    \/ \E c \in Callers : HandleProgress(c) /\ OrderTaken(c)
    \/ \E c \in Callers : HandlePutError(c) /\ OrderTaken(c)
    \/ \E c \in Callers : HandleGetError(c) /\ OrderTaken(c)
    \/ \E c \in Callers : HandleFinish(c) /\ OrderTaken(c)
    \/ \E c \in Callers : Signal(c) /\ UNCHANGED auxVars
    \/ \E c \in Callers : Close(c) /\ UNCHANGED auxVars
    \/ Callback /\ UNCHANGED auxVars

OrderSpec == Init /\ [][OrderNext]_vars

(***************************************************************************)
(* Properties.                                                             *)
(***************************************************************************)
\* this step is the actor taking a cmd message from caller c
Took(c, cmd) ==
    /\ actorPc = "range"
    /\ caller[c].pc = "sending"
    /\ caller[c].msg.Cmd = cmd
    /\ caller'[c].pc \in {"ready", "waiting"}

\* no caller is blocked in a send or has panicked: every message sent was taken
AllDelivered == \A c \in Callers : caller[c].pc \notin {"sending", "panicked"}

FinishDone ==
    /\ actorPc = "returned"
    /\ cmdChClosed
    /\ \E c \in Callers : caller[c].pc = "returned"

\* C1: when Finish is invoked once, after the callers have completed their
\* sends, no send meets the closed channel, and the Finish command is taken,
\* the completion signal is received, Finish returns and the actor goroutine
\* ends, whether the bar was started or not.
C1_FinishCompletes ==
    /\ [](\A c \in Callers : ~(caller[c].pc = "sending" /\ cmdChClosed))
    /\ (FinishInvoked ~> FinishDone)

C1_Witness == FinishDone /\ ~started /\ taken.n > 0

\* C2: when callers send Extend and Progress commands with non-negative deltas
\* concurrently and all of them have been taken, the position is the sum of
\* the Progress deltas sent and the total is the sum of the Extend arguments
\* sent.
C2_ConcurrentSums ==
    (AllDelivered /\ sent.errors = 0 /\ ~sent.negative)
        => (bar.current = sent.progress /\ bar.Total = sent.extend)

C2_Witness ==
    /\ AllDelivered
    /\ sent.errors = 0
    /\ caller[1].msg.Cmd = cpBarCmdProgress
    /\ caller[2].msg.Cmd = cpBarCmdExtend
    /\ bar.current = I64(2)
    /\ bar.Total = I64(1)

\* C3: the total of the bar is the sum of the arguments of the Extend commands
\* the actor has taken, whatever other commands it has taken.
C3_TotalIsSumOfExtends == bar.Total = taken.extend

C3_Witness ==
    /\ bar.Total = I64(2)
    /\ taken.n > 2
    /\ started

\* C4: after Progress commands with deltas >= 0, and no error commands, the
\* position is the sum of the deltas; a Progress whose delta is not greater
\* than 0 leaves the position unchanged.
C4_PositionIsSumOfProgress ==
    [][/\ (taken'.errors = 0 /\ ~taken'.negative) => bar'.current = taken'.progress
       /\ \A c \in Callers :
             (Took(c, cpBarCmdProgress) /\ ~Greater64(caller[c].msg.Arg, Zero64))
                 => bar'.current = bar.current]_vars

C4_Witness ==
    /\ taken.errors = 0
    /\ ~taken.negative
    /\ taken.n > 2
    /\ bar.Total = I64(1)
    /\ bar.current = I64(2)

\* C5: the bar becomes started only when the actor takes a Progress command
\* while the total is above 0, it does so at the first such command, and once
\* started it stays started.
C5_StartedOnce ==
    [][/\ started => started'
       /\ (~started /\ started')
             => \E c \in Callers :
                   Took(c, cpBarCmdProgress) /\ Greater64(bar.Total, Zero64)
       /\ \A c \in Callers :
             (Took(c, cpBarCmdProgress) /\ Greater64(bar.Total, Zero64)) => started']_vars

C5_Witness ==
    /\ started
    /\ taken.n > 2
    /\ taken.progress = I64(1)
    /\ actorPc = "returned"

\* C6: the position of the bar is never below zero.
C6_PositionNotNegative == ~Less64(bar.current, Zero64)

\* C7: an ErrorPut(size) taken while the position is greater than size leaves
\* the position at the previous position minus size.
C7_PutErrorSubtractsSize ==
    [][\A c \in Callers :
          (Took(c, cpBarCmdPutError) /\ Greater64(bar.current, caller[c].msg.Arg))
              => bar'.current = Minus64(bar.current, caller[c].msg.Arg)]_vars

\* C8: an ErrorGet(size) with size > 0 adds size to the position (in int64);
\* with size <= 0 it leaves the position unchanged.
C8_GetErrorAddsSize ==
    [][\A c \in Callers :
          Took(c, cpBarCmdGetError)
              => bar'.current = IF Greater64(caller[c].msg.Arg, Zero64)
                                THEN Plus64(bar.current, caller[c].msg.Arg)
                                ELSE bar.current]_vars

C8_Witness ==
    /\ taken.errors = 2
    /\ taken.progress = I64(1)
    /\ bar.current = I64(3)

\* C9: the string trimBarCaption returns is no longer than the width.
C9_ResultFits == trimPc # "input" => Len(trimResult) <= trimWidth

\* C10: trimBarCaption returns a message that fits unchanged, and applied to
\* its own result it returns that result.
C10_TrimIdempotent ==
    /\ (trimPc # "input" /\ Len(trimCaption.message) <= trimWidth)
          => trimResult = trimCaption.message
    /\ trimPc = "twice" => trimTwice = trimResult

C10_Witness ==
    /\ trimPc = "twice"
    /\ trimResult # trimCaption.message
    /\ Len(trimResult) > 3

\* the number of Read calls made so far whose wrapped Read has returned
RECURSIVE ReadCalls(_)
ReadCalls(S) ==
    IF S = {} THEN 0
    ELSE LET c == CHOOSE d \in S : TRUE
         IN  reader[c].calls + ReadCalls(S \ {c})

\* C11: every Read of the instrumented reader sends exactly one Progress
\* command, whose delta is the count n the wrapped reader returned (also when
\* n is 0 or an error came with it); the command is sent after the wrapped
\* Read has returned, and Read returns that n and err unchanged, once the
\* actor has taken the command.
C11_ReadReportsCount ==
    [][/\ \A c \in Callers :
            /\ (reader[c].pc = "read" /\ reader'[c].pc # "read") =>
                   /\ caller[c].pc = "ready"
                   /\ caller'[c] = [pc |-> "sending",
                                    msg |-> [Cmd |-> cpBarCmdProgress,
                                             Arg |-> I64(reader[c].n)]]
                   /\ sent'.n = sent.n + 1
            /\ (caller[c].pc # "sending" /\ caller'[c].pc = "sending") =>
                   reader[c].pc = "read"
            /\ (reader[c].pc # "idle" /\ reader'[c].pc = "idle") =>
                   /\ reader[c].pc = "progress"
                   /\ caller[c].pc = "ready"
                   /\ reader'[c].retN = reader[c].n
                   /\ reader'[c].retErr = reader[c].err
       /\ sent'.n + Cardinality(ReadPending') = ReadCalls(Callers)']_vars

\* a Read that got 0 and an error from the wrapped reader has returned both,
\* after its Progress(0) was taken
C11_Witness ==
    \E c \in Callers :
        /\ reader[c].pc = "idle"
        /\ reader[c].calls = 2
        /\ reader[c].retN = 0
        /\ reader[c].retErr = "EOF"
        /\ taken.n = 2
        /\ taken.progress = I64(2)

\* C12: for every producer, the actor processes that producer's commands in
\* the order they were sent, whatever the interleaving with other producers:
\* a producer sends its next message only when the actor has taken all its
\* earlier ones, the message the actor takes from a producer is the oldest
\* one of that producer not yet taken (none is skipped, none is taken twice),
\* and a message is missing from the taken ones only while its sender is
\* still in the send.
C12_ProducerOrder ==
    [][\A c \in Callers :
          /\ (caller[c].pc # "sending" /\ caller'[c].pc = "sending") =>
                 /\ order[c].sent = order[c].taken
                 /\ order'[c].sent = order[c].sent + 1
          /\ (\E cmd \in cpBarCmdExtend..cpBarCmdSetCaption : Took(c, cmd)) =>
                 /\ order[c].taken + 1 = order[c].sent
                 /\ order'[c].taken = order[c].sent
          /\ order'[c].sent - order'[c].taken =
                 IF caller'[c].pc \in {"sending", "panicked"} THEN 1 ELSE 0]_vars

\* one producer has had two messages taken and another one, of three kinds
C12_Witness ==
    /\ \E c, d \in Callers :
          /\ order[c] = [sent |-> 2, taken |-> 2]
          /\ order[d] = [sent |-> 1, taken |-> 1]
    /\ taken.n = 3
    /\ taken.extend = I64(1)
    /\ taken.progress = I64(1)
    /\ taken.errors = 1

\* C13: the command channel is closed only by a Finish whose command the
\* actor has received and processed and whose caller has received the
\* completion signal: the close never comes before the actor's processing of
\* Finish, and while the channel is closed the actor has returned.
C13_CloseAfterFinish ==
    [][/\ (~cmdChClosed /\ cmdChClosed') =>
             /\ actorPc = "returned"
             /\ \E c \in Callers :
                    /\ caller[c] = [pc |-> "closing",
                                    msg |-> [Cmd |-> cpBarCmdFinish, Arg |-> <<>>]]
                    /\ caller'[c].pc = "returned"
       /\ cmdChClosed' => actorPc' = "returned"]_vars

\* the channel is closed after a started bar took three commands and Finish
C13_Witness ==
    /\ cmdChClosed
    /\ started
    /\ taken.n = 3
    /\ \E c \in Callers : caller[c].pc = "returned"

\* the callers that have received the completion signal
Signalled(pcs) == {c \in Callers : pcs[c].pc \in {"closing", "returned"}}

\* C14: the actor sends the completion signal at most once, and only after it
\* has processed a Finish command; from the processing of Finish on it takes
\* no further command and changes nothing of its state, and after the signal
\* it has returned for good.  Unless a Finish command was taken, the actor is
\* still in its loop and has not signalled.
C14_SignalOnceThenStop ==
    [][/\ Signalled(caller) # Signalled(caller') =>
             /\ actorPc = "signal"
             /\ actorPc' = "returned"
             /\ Signalled(caller) = {}
             /\ Cardinality(Signalled(caller')) = 1
       /\ actorPc # "range" =>
             /\ actorPc' # "range"
             /\ UNCHANGED <<actorVars, taken>>
       /\ actorPc = "returned" => actorPc' = "returned"
       /\ (actorPc' # "range" \/ Signalled(caller') # {}) =>
             \E c \in Callers :
                 /\ caller'[c].msg.Cmd = cpBarCmdFinish
                 /\ caller'[c].pc \in {"waiting", "closing", "returned"}]_vars

\* the actor has signalled and returned while another caller is in a send
C14_Witness ==
    /\ actorPc = "returned"
    /\ \E c, d \in Callers :
          /\ caller[c].pc = "closing"
          /\ caller[d].pc = "sending"
    /\ taken.n = 2

\* C15: a command (a second Finish included) that a caller sends, or is still
\* sending, once the actor has processed Finish is never processed: no
\* message is taken any more, and the sender stays blocked in its send on the
\* unbuffered channel or, the channel being closed, panics in it; a sender
\* that has panicked does nothing further.
C15_NoProcessingAfterFinish ==
    [][\A c \in Callers :
          /\ (actorPc # "range" /\ caller[c].pc = "sending") =>
                 /\ taken' = taken
                 /\ caller'[c].msg = caller[c].msg
                 /\ caller'[c].pc \in {"sending", "panicked"}
                 /\ caller'[c].pc = "panicked" => cmdChClosed
          /\ (actorPc' # "range" /\ caller'[c].pc = "sending") =>
                 taken' = taken
          /\ caller[c].pc = "panicked" => caller'[c] = caller[c]]_vars

\* a command sent after Finish was processed has met the closed channel,
\* after two commands were processed
C15_Witness ==
    /\ actorPc = "returned"
    /\ cmdChClosed
    /\ taken.n = 2
    /\ sent.n = 3
    /\ \E c \in Callers :
          /\ caller[c].pc = "panicked"
          /\ caller[c].msg.Cmd # cpBarCmdFinish

\* every message sent was taken, and they were Extend, SetCaption and
\* Progress commands without a negative delta
OnlyExtendAndProgress == AllDelivered /\ sent.errors = 0 /\ ~sent.negative

\* the total and the position are the sums of the commands sent, which no
\* interleaving changes
SumsOrderFree ==
    OnlyExtendAndProgress =>
        (bar.current = sent.progress /\ bar.Total = sent.extend)

\* C16 as stated: for the same Extend and Progress commands the final total
\* and position are the same for every interleaving, and whether the bar ends
\* up started depends only on the accumulated total and on a nonzero Progress
\* having been sent, not on the order of the commands: the bar is started
\* exactly if the total is above zero and some Progress had a nonzero delta,
\* and a Progress with delta 0 does not start it.
C16_StartedOrderFree ==
    [][/\ SumsOrderFree'
       /\ (OnlyExtendAndProgress =>
              (started <=> (Greater64(bar.Total, Zero64)
                              /\ sent.progress # Zero64)))'
       /\ \A c \in Callers :
             (Took(c, cpBarCmdProgress) /\ caller[c].msg.Arg = Zero64)
                 => started' = started]_vars

\* C16, amended: for the same Extend and Progress commands the final total
\* and position are the same for every interleaving; whether the bar is
\* started does depend on the order: a Progress command the actor takes
\* starts the bar exactly if the total is above zero at that moment, whatever
\* its delta (0 included), and nothing else starts it.
C16_StartedByOrder ==
    [][/\ SumsOrderFree'
       /\ \A c \in Callers :
             Took(c, cpBarCmdProgress) =>
                 (started' <=> (started \/ Greater64(bar.Total, Zero64)))
       /\ (\A c \in Callers : ~Took(c, cpBarCmdProgress)) =>
             started' = started]_vars

\* a Progress with delta 0 has started the bar
C16_Witness ==
    /\ OnlyExtendAndProgress
    /\ started
    /\ taken.n = 2
    /\ taken.extend = I64(1)
    /\ taken.progress = Zero64

\* C17: the processing of ErrorPut or ErrorGet always sets redraw, also when
\* its guard leaves the position as it is; redraw is set by nothing else but
\* the start of the bar, and once set it stays set until bar.Callback is
\* called, by the running bar or by bar.Finish(); every call of bar.Callback
\* leaves it cleared; SetCaption and Extend leave it as it is.
C17_RedrawFlag ==
    [][/\ \A c \in Callers :
             /\ (Took(c, cpBarCmdPutError) \/ Took(c, cpBarCmdGetError)) => redraw'
             /\ (Took(c, cpBarCmdSetCaption) \/ Took(c, cpBarCmdExtend)) =>
                    redraw' = redraw
             /\ (Took(c, cpBarCmdFinish) /\ started) => ~redraw'
       /\ (~redraw /\ redraw') =>
             \E c \in Callers :
                 \/ Took(c, cpBarCmdPutError)
                 \/ Took(c, cpBarCmdGetError)
                 \/ Took(c, cpBarCmdProgress) /\ ~started /\ started'
       /\ (redraw /\ ~redraw') =>
             /\ bar.running
             /\ \/ caller' = caller
                \/ \E c \in Callers : Took(c, cpBarCmdFinish)
       /\ caller' = caller => ~redraw']_vars

\* the running bar has called bar.Callback after an error command whose
\* guard left the position as it was
C17_Witness ==
    /\ ~redraw
    /\ bar.running
    /\ taken.n = 3
    /\ taken.errors = 1
    /\ bar.current = taken.progress

\* C18: the total of the bar never gets smaller: no step of the actor, for
\* any command and any int64 argument of Extend, leaves a total below the
\* one before.
C18_TotalNonDecreasing == [][~Less64(bar'.Total, bar.Total)]_vars

\* the bytes of a separator rune in a Go string (UTF-8, runes below U+0800)
Encode(r) == IF r < 128 THEN <<r>> ELSE <<192 + (r \div 64), 128 + (r % 64)>>

\* e occurs in s at index i (from 1)
OccursAt(s, i, e) ==
    /\ i + Len(e) - 1 <= Len(s)
    /\ SubSeq(s, i, i + Len(e) - 1) = e

\* C19: whenever trimBarCaption shortens a message (it is longer than the
\* width, and length - width + 4 is below its length), the result is "..."
\* followed by message[length - width + 4:] when that candidate holds no
\* separator at a positive index, and otherwise the candidate from its first
\* separator on, which begins with the separator character; either way the
\* result is the end of the candidate and is not longer than the message.
C19_TrimShape ==
    LET m == trimCaption.message
        n == Len(m)
        cut == n - trimWidth + 4
        cand == Dots \o SliceFrom(m, cut)
        sep == Encode(trimCaption.separator)
        at == {i \in 1..Len(cand) : OccursAt(cand, i, sep)}
        first == CHOOSE i \in at : \A j \in at : i <= j
    IN  (trimPc # "input" /\ n > trimWidth /\ cut < n) =>
           /\ IF \E i \in at : i > 1
              THEN /\ trimResult = SubSeq(cand, first, Len(cand))
                   /\ OccursAt(trimResult, 1, sep)
              ELSE trimResult = cand
           /\ \E k \in 1..Len(cand) : trimResult = SubSeq(cand, k, Len(cand))
           /\ Len(trimResult) <= n

\* C20: totalBytesRead is changed only by a Progress command with a positive
\* delta, which adds the delta, and is left as it is by ErrorPut and ErrorGet;
\* ErrorPut tests and computes from totalBytesRead, not from the position of
\* the bar: with totalBytesRead > size it sets the position to
\* totalBytesRead - size whatever the position was, and otherwise it leaves
\* the position as it is.
C20_CounterFrame ==
    [][/\ totalBytesRead' # totalBytesRead =>
             \E c \in Callers :
                 /\ Took(c, cpBarCmdProgress)
                 /\ Greater64(caller[c].msg.Arg, Zero64)
                 /\ totalBytesRead' = Plus64(totalBytesRead, caller[c].msg.Arg)
       /\ \A c \in Callers :
             /\ (Took(c, cpBarCmdPutError) \/ Took(c, cpBarCmdGetError)) =>
                    totalBytesRead' = totalBytesRead
             /\ Took(c, cpBarCmdPutError) =>
                    bar'.current =
                        IF Greater64(totalBytesRead, caller[c].msg.Arg)
                        THEN Minus64(totalBytesRead, caller[c].msg.Arg)
                        ELSE bar.current]_vars

\* after Progress(1), ErrorGet(1) and ErrorPut(0) the position is 1: the
\* counter less the size of ErrorPut, the advance of ErrorGet being dropped
C20_Witness ==
    /\ taken.n = 3
    /\ taken.errors = 2
    /\ taken.progress = I64(1)
    /\ totalBytesRead = I64(1)
    /\ bar.current = I64(1)
    /\ \E c, d \in Callers :
          /\ caller[c] = [pc |-> "ready",
                          msg |-> [Cmd |-> cpBarCmdPutError, Arg |-> Zero64]]
          /\ caller[d] = [pc |-> "ready",
                          msg |-> [Cmd |-> cpBarCmdGetError, Arg |-> I64(1)]]

====
